---- MODULE Spec2Model ----
(***************************************************************************)
(* A model of the gloss-client library (GlossClient).                      *)
(*                                                                         *)
(* The repository holds several generations of the client.  Two of them    *)
(* are modelled here:                                                      *)
(*   "day"   - src/unnamed/part_001: every log of an author for a date is  *)
(*             written under the store key entry/{date}; a day is read     *)
(*             back by walking the record's version history.               *)
(*   "entry" - src/src/GlossClient.ts lines 1-394: every log has its own   *)
(*             store key entry/{date}/{time}; a day is read back by a      *)
(*             paged scan of the whole protocol.                           *)
(*                                                                         *)
(* Abstractions.  A timestamp is a clock tick (toISOString is monotone on  *)
(* ticks, so comparing ISO strings is comparing ticks).  An entry key      *)
(* "{date}/{HHmmss}-{SSS}{rand}" is the record [d, t, r] of its date, its  *)
(* time and its random suffix; localeCompare on the fixed-width strings is *)
(* the lexicographic order on (d, t, r).  A key string without '/' has     *)
(* d = 0.  An optional value is a sequence of length at most one.    *)
(* A serialized value (JSON text) is a record of its parsed fields;        *)
(* JSON.stringify and JSON.parse build and read that record.  The txid     *)
(* decoration (includeTxid) is left out: it only adds a field.             *)
(*                                                                         *)
(* Specifications.  SpecList applies the pure reading functions to a batch *)
(* of records; Spec runs the operations of both generations against the    *)
(* store; SpecPaged runs listDay and removeDay fetch by fetch over stores  *)
(* of more than one page; SpecIdentity runs concurrent calls through       *)
(* ensureIdentityKey; SpecDecode reads records holding arbitrary values;   *)
(* SpecForeign reads a store written by other applications of the          *)
(* protocol; SpecBare passes a key without a '/'; SpecDerive lists values  *)
(* that carry no key; SpecRace runs two clients of one author; and         *)
(* SpecRemoveDay runs removeDay alone, every awaited call resolving.       *)
(***************************************************************************)
EXTENDS Integers, Sequences, FiniteSets, TLC

VARIABLES
    rows,       \* SpecList: the batch of physical records the store returned
    call,       \* SpecList: the last pure call applied, with its result
    layout,     \* Spec: which generation of the client runs ("day" or "entry")
    store,      \* Spec: the versioned record store, (store key, controller) -> versions
    now,        \* Spec: the wall clock, in ticks
    newestFirst,\* Spec: the direction in which the store lists a record's history
    pc,         \* Spec: per client, the call suspended at a store read, or idle
    last,       \* Spec: the last call that returned, with its result
    created,    \* Spec: history variable, the (key, controller) pairs log() created
    writes,     \* Spec: history variable, the number of store writes issued
    identityKey,\* SpecIdentity: the instance's memoized identity key, or null
    lookups     \* SpecIdentity: history variable, the wallet.getPublicKey calls issued

vars == <<rows, call, layout, store, now, newestFirst, pc, last, created, writes,
          identityKey, lookups>>

-----------------------------------------------------------------------------
(* Bounds of the model *)

MaxValues == 3      \* SpecList: values (current + historical) in a batch
MaxWrites == 3      \* Spec: store writes (set) in a behaviour
MaxClock == 2       \* Spec: the last clock tick
TicksPerDay == 2    \* Spec: clock ticks in one UTC date

-----------------------------------------------------------------------------
(* Optional values and small helpers *)

None == <<>>
Some(x) == <<x>>
IsSome(o) == Len(o) = 1
Get(o) == o[1]

Max(a, b) == IF a >= b THEN a ELSE b
Min(a, b) == IF a <= b THEN a ELSE b

Range(s) == {s[i] : i \in 1..Len(s)}

RECURSIVE Reverse(_)
Reverse(s) == IF s = <<>> THEN <<>> ELSE Append(Reverse(Tail(s)), Head(s))

RECURSIVE SelectSeqBy(_, _)
\* Array.prototype.filter with a predicate given as the set of kept elements
SelectSeqBy(s, keep) ==
    IF s = <<>> THEN <<>>
    ELSE IF Head(s) \in keep THEN <<Head(s)>> \o SelectSeqBy(Tail(s), keep)
         ELSE SelectSeqBy(Tail(s), keep)

\* Array.prototype.slice(from, to) for 0 <= from, on 0-based positions
Slice(s, from, to) ==
    LET lo == Min(from, Len(s))
        hi == Min(Max(to, lo), Len(s))
    IN  SubSeq(s, lo + 1, hi)

-----------------------------------------------------------------------------
(* Identities, dates, keys *)

Controllers == {"A", "B"}
NotAString == "#nonstring"   \* a JSON array element that is not a string

\* toISOString().slice(0, 10): the UTC date of a clock tick
DateOf(t) == (t \div TicksPerDay) + 1

RandLess(x, y) == x = "a" /\ y = "b"

KeyBefore(a, b) ==
    \/ a.d < b.d
    \/ a.d = b.d /\ a.t < b.t
    \/ a.d = b.d /\ a.t = b.t /\ RandLess(a.r, b.r)

\* a.key.localeCompare(b.key): negative, zero or positive
localeCompare(a, b) == IF KeyBefore(a, b) THEN -1 ELSE IF KeyBefore(b, a) THEN 1 ELSE 0

\* key.includes('/'): a key string without '/' carries the date part 0
HasSlash(key) == key.d > 0

\* logKey.split('/')[0]
datePart(key) == key.d

nextIdForDay(day, base, rand) == [d |-> day, t |-> base, r |-> rand]

\* the store key of a date's record in the "day" layout: entry/{date}
dayKey(day) == [d |-> day, t |-> -1, r |-> "-"]

\* the store key of one entry in the "entry" layout: entry/{date}/{time}-{rand}
entryKey(key) == key

\* rec.key.startsWith(`entry/${date}/`)
startsWithPrefix(skey, date) == skey.d = date /\ skey.t >= 0

-----------------------------------------------------------------------------
(* Serialized values.  A value is the text JSON.parse reads: ok = FALSE is  *)
(* a text that does not parse, or parses to something that is no object;   *)
(* otherwise the fields are the parsed object's, each present or absent,    *)
(* and logs, when present, is the array of a legacy day-chain container.    *)

RawObject(key, at, text, tags, assets, controller) ==
    [key |-> key, at |-> at, text |-> text, tags |-> tags, assets |-> assets,
     controller |-> controller]

Malformed ==
    [ok |-> FALSE, logs |-> None, obj |-> RawObject(None, None, None, None, None, None)]

ObjectValue(obj) == [ok |-> TRUE, logs |-> None, obj |-> obj]

\* a legacy day-chain container { key: date, logs: [...] }
ChainValue(logs) ==
    [ok |-> TRUE, logs |-> Some(logs), obj |-> RawObject(None, None, None, None, None, None)]

stringify_DropsTags(entry) ==
    ObjectValue(RawObject(Some(entry.key), Some(entry.at), Some(entry.text),
                          Some(<<>>), entry.assets, entry.controller))

\* JSON.stringify of a LogEntry object literal (every field it sets is present)
stringify(entry) ==
    ObjectValue(RawObject(Some(entry.key), Some(entry.at), Some(entry.text),
                          entry.tags, entry.assets, entry.controller))

LogEntry(key, at, text, tags, assets, controller) ==
    [key |-> key, at |-> at, text |-> text, tags |-> tags, assets |-> assets,
     controller |-> controller]

StringsOnly(arr) == SelectSeq(arr, LAMBDA x : x # NotAString)

\* env.now: the clock when the value is read; env.rand: the suffix Math.random
\* yields should a key have to be derived.  Keys are never the empty string.
normalizeLog(raw, controller, env) ==
    LET key  == IF IsSome(raw.key) THEN Get(raw.key)
                ELSE nextIdForDay(DateOf(env.now), env.now, env.rand)
        at   == IF IsSome(raw.at) THEN Get(raw.at) ELSE env.now
        text == IF IsSome(raw.text) THEN Get(raw.text) ELSE ""
        tags == IF IsSome(raw.tags) THEN Some(StringsOnly(Get(raw.tags))) ELSE None
        assets == IF IsSome(raw.assets) THEN Some(StringsOnly(Get(raw.assets))) ELSE None
        ctrl == IF IsSome(raw.controller) THEN raw.controller ELSE controller
        normalizedKey == IF HasSlash(key) THEN key ELSE [key EXCEPT !.d = DateOf(at)]
    IN  IF text = "" THEN None
        ELSE Some(LogEntry(normalizedKey, at, text, tags, assets, ctrl))

parseLogEntry(value, controller, env) ==
    IF ~value.ok THEN None
    ELSE IF IsSome(value.logs)
         THEN IF Len(Get(value.logs)) > 0
              THEN normalizeLog(Get(value.logs)[1], controller, env)
              ELSE None
         ELSE normalizeLog(value.obj, controller, env)

matchesTagFilter_AnyOnly(tags, filter, mode) ==
    /\ Len(tags) # 0
    /\ \E i \in 1..Len(tags) : tags[i] \in filter

\* tags: the entry's tag array; filter: the Set of wanted tags; mode: tagQueryMode
matchesTagFilter(tags, filter, mode) ==
    IF Len(tags) = 0 THEN FALSE
    ELSE IF mode = Some("all")
         THEN \A wanted \in filter : \E i \in 1..Len(tags) : tags[i] = wanted
         ELSE \E i \in 1..Len(tags) : tags[i] \in filter

cloneLog(log) ==
    LogEntry(log.key, log.at, log.text, log.tags, log.assets, log.controller)

-----------------------------------------------------------------------------
(* Sorting.  Array.prototype.sort is stable; with a comparator that is a    *)
(* total preorder its result is the stable insertion sort below.            *)

RECURSIVE InsertByKey(_, _)
\* x goes after every element it does not precede
InsertByKey(x, s) ==
    IF s = <<>> THEN <<x>>
    ELSE IF localeCompare(x.key, Head(s).key) < 0 THEN <<x>> \o s
         ELSE <<Head(s)>> \o InsertByKey(x, Tail(s))

RECURSIVE SortByKey(_)
\* logs.sort((a, b) => a.key.localeCompare(b.key))
SortByKey(s) ==
    IF s = <<>> THEN <<>>
    ELSE InsertByKey(s[Len(s)], SortByKey(SubSeq(s, 1, Len(s) - 1)))

-----------------------------------------------------------------------------
(* Query options: every field optional *)

QueryOptions(controller, tags, tagQueryMode, sortOrder, skip, limit) ==
    [controller |-> controller, tags |-> tags, tagQueryMode |-> tagQueryMode,
     sortOrder |-> sortOrder, skip |-> skip, limit |-> limit,
     pageSize |-> None, maxPages |-> None]

NoOptions == QueryOptions(None, None, None, None, None, None)

\* options.tags && options.tags.length > 0 ? new Set(options.tags) : undefined
tagSet(options) ==
    IF IsSome(options.tags) /\ Len(Get(options.tags)) > 0
    THEN Some(Range(Get(options.tags)))
    ELSE None

-----------------------------------------------------------------------------
(* listDay of the "day" generation: the loop over the records the store     *)
(* returned, each with its current value and its history.  acc is the loop  *)
(* state: logs, seenKeys, and n, the number of values parsed so far (which  *)
(* random suffix a derived key would get).                                  *)

RandAt(env, n) == env.rand[((n - 1) % Len(env.rand)) + 1]

\* One value of a record, current or historical: lines 156-167 and 175-186.
\* rejected tells that the value was decoded, was new, and failed a filter,
\* the case in which the code runs `continue`.
considerValue_NoSeenKeys(acc, value, controller, options, env) ==
    LET parsed == parseLogEntry(value, controller, [now |-> env.now, rand |-> RandAt(env, acc.n + 1)])
        acc1 == [acc EXCEPT !.n = @ + 1]
    IN  IF ~IsSome(parsed)
        THEN [acc |-> acc1, rejected |-> FALSE]
        ELSE LET log == Get(parsed) IN
             IF \/ IsSome(options.controller) /\ log.controller # options.controller
                \/ /\ IsSome(tagSet(options))
                   /\ ~matchesTagFilter(IF IsSome(log.tags) THEN Get(log.tags) ELSE <<>>,
                                        Get(tagSet(options)), options.tagQueryMode)
             THEN [acc |-> acc1, rejected |-> TRUE]
             ELSE [acc |-> [acc1 EXCEPT !.logs = Append(@, cloneLog(log))],
                   rejected |-> FALSE]

considerValue(acc, value, controller, options, env) ==
    LET parsed == parseLogEntry(value, controller, [now |-> env.now, rand |-> RandAt(env, acc.n + 1)])
        acc1 == [acc EXCEPT !.n = @ + 1]
    IN  IF ~IsSome(parsed) \/ Get(parsed).key \in acc.seenKeys
        THEN [acc |-> acc1, rejected |-> FALSE]
        ELSE LET log == Get(parsed) IN
             IF \/ IsSome(options.controller) /\ log.controller # options.controller
                \/ /\ IsSome(tagSet(options))
                   /\ ~matchesTagFilter(IF IsSome(log.tags) THEN Get(log.tags) ELSE <<>>,
                                        Get(tagSet(options)), options.tagQueryMode)
             THEN [acc |-> acc1, rejected |-> TRUE]
             ELSE [acc |-> [acc1 EXCEPT !.logs = Append(@, cloneLog(log)),
                                        !.seenKeys = @ \cup {log.key}],
                   rejected |-> FALSE]

RECURSIVE considerHistory(_, _, _, _, _)
\* lines 171-188: in the inner loop `continue` moves on to the next past value
considerHistory(acc, history, controller, options, env) ==
    IF history = <<>> THEN acc
    ELSE considerHistory(considerValue(acc, Head(history), controller, options, env).acc,
                         Tail(history), controller, options, env)

\* lines 151-189, one iteration: `continue` on the current value leaves the
\* iteration, so that record's history is not read
considerRecord(acc, record, options, env) ==
    LET cur == considerValue(acc, record.value, record.controller, options, env)
    IN  IF cur.rejected THEN cur.acc
        ELSE considerHistory(cur.acc, record.history, record.controller, options, env)

RECURSIVE considerRows(_, _, _, _)
considerRows(acc, rs, options, env) ==
    IF rs = <<>> THEN acc
    ELSE considerRows(considerRecord(acc, Head(rs), options, env), Tail(rs), options, env)

\* lines 191-195
sortLogs(logs, sortOrder) ==
    IF sortOrder = Some("desc") THEN Reverse(SortByKey(logs)) ELSE SortByKey(logs)

\* lines 197-198
paginate(logs, options) ==
    LET skip == Max(0, IF IsSome(options.skip) THEN Get(options.skip) ELSE 0)
    IN  IF IsSome(options.limit) /\ Get(options.limit) > 0
        THEN Slice(logs, skip, skip + Get(options.limit))
        ELSE Slice(logs, skip, Len(logs))

\* rs: the rows kv.get returned for the day key (any controller/tag filter the
\* store applied to whole records has already shaped rs)
listDay(rs, options, env) ==
    LET acc == considerRows([logs |-> <<>>, seenKeys |-> {}, n |-> 0], rs, options, env)
    IN  paginate(sortLogs(acc.logs, options.sortOrder), options)

-----------------------------------------------------------------------------
(* SpecList: listDay and matchesTagFilter as pure functions.  The store's   *)
(* answer is built one value at a time (a new record with its current       *)
(* value, or one more historical value of the last record), then one call   *)
(* is applied to it and its result recorded.                                *)

MaxTags == 2        \* the length of an entry's tag array in MatchesTagFilterCall

TagNames == {"x", "y", "z"}

RECURSIVE SeqsUpTo(_, _)
SeqsUpTo(S, n) ==
    IF n = 0 THEN {<<>>}
    ELSE LET shorter == SeqsUpTo(S, n - 1)
         IN  shorter \cup {Append(s, x) : s \in shorter, x \in S}

K1 == [d |-> 1, t |-> 0, r |-> "a"]
K2 == [d |-> 1, t |-> 0, r |-> "b"]
K3 == [d |-> 1, t |-> 1, r |-> "a"]
SampleKeys == {K1, K2, K3}

\* the (key, tags) pairs a batch's values are drawn from
SampleEntries ==
    { <<K1, None>>, <<K1, Some(<<"x", "y">>)>>, <<K2, None>>, <<K2, Some(<<"x", "y">>)>>,
      <<K3, Some(<<"x", "y">>)>> }

RECURSIVE ToText(_)
\* the text of the n-th value of a batch: every version is told apart by its text
ToText(n) == IF n = 0 THEN "" ELSE ToText(n - 1) \o "i"

SampleValue(key, tags, n) ==
    stringify(LogEntry(key, 0, ToText(n), tags, None, None))

RECURSIVE CountValues(_)
CountValues(rs) ==
    IF rs = <<>> THEN 0 ELSE 1 + Len(Head(rs).history) + CountValues(Tail(rs))

ListOptions ==
    { QueryOptions(c, tg[1], tg[2], sp[1], sp[2], sp[3]) :
        c \in {None, Some("A")},
        tg \in { <<None, None>>, <<Some(<<"x", "z">>), None>>, <<Some(<<"x", "z">>), Some("all")>> },
        sp \in { <<None, None, None>>, <<Some("desc"), None, None>>, <<Some("asc"), Some(1), Some(1)>> } }

\* nothing in a SpecList batch lacks a key, so the environment is never read
ListEnv == [now |-> 0, rand |-> <<"a">>]

NoCall ==
    [op |-> "none", options |-> NoOptions, out |-> <<>>,
     tags |-> <<>>, filter |-> {}, mode |-> None, result |-> FALSE]

IdleClients == [c \in Controllers |-> [op |-> "idle"]]

InitList ==
    /\ rows = <<>>
    /\ call = NoCall
    /\ layout = "day"
    /\ store = <<>>
    /\ now = 0
    /\ newestFirst = FALSE
    /\ pc = IdleClients
    /\ last = [op |-> "none"]
    /\ created = {}
    /\ writes = 0
    /\ identityKey = None
    /\ lookups = 0

StateUnchanged ==
    UNCHANGED <<layout, store, now, newestFirst, pc, last, created, writes, identityKey, lookups>>

\* the store returns one more record, for controller c
StoreReturnsRecord ==
    /\ call.op = "none"
    /\ CountValues(rows) < MaxValues
    /\ \E c \in Controllers, e \in SampleEntries :
         rows' = Append(rows, [key |-> dayKey(1), controller |-> Some(c),
                               value |-> SampleValue(e[1], e[2], CountValues(rows) + 1),
                               history |-> <<>>])
    /\ UNCHANGED call
    /\ StateUnchanged

\* the last record returned carries one more historical value
StoreReturnsHistory ==
    /\ call.op = "none"
    /\ rows # <<>>
    /\ CountValues(rows) < MaxValues
    /\ \E e \in SampleEntries :
         rows' = [rows EXCEPT ![Len(rows)].history =
                     Append(@, SampleValue(e[1], e[2], CountValues(rows) + 1))]
    /\ UNCHANGED call
    /\ StateUnchanged

ListDayCall ==
    /\ call.op = "none"
    /\ \E options \in ListOptions :
         call' = [NoCall EXCEPT !.op = "listDay", !.options = options,
                                !.out = listDay(rows, options, ListEnv)]
    /\ UNCHANGED rows
    /\ StateUnchanged

MatchesTagFilterCall ==
    /\ call.op = "none"
    /\ rows = <<>>
    /\ \E tags \in SeqsUpTo(TagNames, MaxTags), filter \in (SUBSET TagNames) \ {{}},
          mode \in {None, Some("any"), Some("all")} :
         call' = [NoCall EXCEPT !.op = "matchesTagFilter", !.tags = tags,
                                !.filter = filter, !.mode = mode,
                                !.result = matchesTagFilter(tags, filter, mode)]
    /\ UNCHANGED rows
    /\ StateUnchanged

NextList ==
    \/ StoreReturnsRecord
    \/ StoreReturnsHistory
    \/ ListDayCall
    \/ MatchesTagFilterCall

SpecList == InitList /\ [][NextList]_vars

-----------------------------------------------------------------------------
(* Reference notions the claims about listDay are stated with.  They are    *)
(* written from the claims' words, not from the code.                       *)

RECURSIVE FlattenRows(_)
\* every value of a batch in iteration order: a record's current value, then
\* its history in list order, record after record
FlattenRows(rs) ==
    IF rs = <<>> THEN <<>>
    ELSE LET r == Head(rs)
         IN  <<[value |-> r.value, controller |-> r.controller]>>
             \o [i \in 1..Len(r.history) |-> [value |-> r.history[i], controller |-> r.controller]]
             \o FlattenRows(Tail(rs))

\* the entries decoded from a batch, in iteration order (undecodable values dropped)
DecodedEntries(rs) ==
    LET flat == FlattenRows(rs)
        dec == [i \in 1..Len(flat) |-> parseLogEntry(flat[i].value, flat[i].controller, ListEnv)]
        RECURSIVE Collect(_)
        Collect(i) == IF i > Len(flat) THEN <<>>
                      ELSE (IF IsSome(dec[i]) THEN <<Get(dec[i])>> ELSE <<>>) \o Collect(i + 1)
    IN  Collect(1)

\* chain reconstruction: of every key, the first occurrence
Reconstructed(rs) ==
    LET dec == DecodedEntries(rs)
    IN  { dec[i] : i \in { j \in 1..Len(dec) : \A h \in 1..(j - 1) : dec[h].key # dec[j].key } }

EntryTags(e) == IF IsSome(e.tags) THEN Range(Get(e.tags)) ELSE {}

\* the controller filter and the tag filter as the specification words them
PassesFilters(e, options) ==
    /\ IsSome(options.controller) => e.controller = options.controller
    /\ IsSome(tagSet(options)) =>
         IF options.tagQueryMode = Some("all")
         THEN Get(tagSet(options)) \subseteq EntryTags(e)
         ELSE EntryTags(e) \cap Get(tagSet(options)) # {}

Unpaged(options) == options.skip = None /\ options.limit = None

\* how many values of the batch decode to key k
Occurrences(rs, k) ==
    LET dec == DecodedEntries(rs) IN Cardinality({ i \in 1..Len(dec) : dec[i].key = k })

-----------------------------------------------------------------------------
(* C1: whatever batch of records the store returns, with any key repeated   *)
(* across current values and histories of one or several records, and       *)
(* whatever the options, the sequence listDay returns holds at most one     *)
(* entry per entry key.                                                     *)
C1_AtMostOneEntryPerKey ==
    call.op = "listDay" =>
        \A i, j \in 1..Len(call.out) : call.out[i].key = call.out[j].key => i = j

\* a key that occurs as a current value and again in histories, across two
\* records, and is listed
C1_Witness ==
    /\ call.op = "listDay"
    /\ Len(rows) = 2
    /\ \E k \in SampleKeys :
         /\ Occurrences(rows, k) = 3
         /\ \E i \in 1..Len(call.out) : call.out[i].key = k

(* C2: with no skip and no limit, the entries listDay returns are exactly   *)
(* the de-duplicated entries of all current and historical values that      *)
(* match the controller filter and the tag filter; an entry found only in   *)
(* a record's history is returned when it matches, also when the record's   *)
(* current value does not match.                                            *)
C2_FilterAfterReconstruction ==
    (call.op = "listDay" /\ Unpaged(call.options)) =>
        Range(call.out) = { e \in Reconstructed(rows) : PassesFilters(e, call.options) }

IsAscending(s) == \A i, j \in 1..Len(s) : i < j => ~KeyBefore(s[j].key, s[i].key)

(* C17: for any batch and any controller or tag filter, every entry listDay  *)
(* returns is the first decoded occurrence of its key in iteration order (a  *)
(* record's current value before its history, the history in list order); a  *)
(* later occurrence of a key is never returned, also when the first one      *)
(* fails the filter and the later one passes it.                             *)
C17_FirstOccurrenceWins ==
    call.op = "listDay" => Range(call.out) \subseteq Reconstructed(rows)

-----------------------------------------------------------------------------
(* The versioned keyed record store (GlobalKVStore of @bsv/sdk), as the     *)
(* clients use it.  It is no code of this repository; it is modelled from   *)
(* its contract (spec.md section 6): every (store key, controller) holds    *)
(* the chain of the values written to it, oldest first; the last one is     *)
(* the current value, the others are its history; set appends a value,      *)
(* remove ends the chain.  Tag filtering by the store is not modelled       *)
(* (the contract makes it optional); controller filtering is.               *)

Ticks == 0..MaxClock
Dates == {DateOf(t) : t \in Ticks}
LogRand == {"a"}        \* the suffixes Math.random yields in log(); one value, so
                        \* two logs of one clock tick get the same key
EntryKeys == {nextIdForDay(DateOf(t), t, r) : t \in Ticks, r \in LogRand}
StoreKeys == {dayKey(d) : d \in Dates} \cup {entryKey(k) : k \in EntryKeys}
ControllerOrder == <<"A", "B">>

EmptyStore == [sk \in StoreKeys \X Controllers |-> <<>>]

\* kv.set(key, value) by the client of controller c
kvSet(st, skey, c, value) == [st EXCEPT ![<<skey, c>>] = Append(@, value)]

\* kv.remove(key) by the client of controller c
kvRemove(st, skey, c) == [st EXCEPT ![<<skey, c>>] = <<>>]

\* the record the store returns for a chain, with its history when asked for
kvRecord(st, skey, c, withHistory, newest) ==
    LET chain == st[<<skey, c>>]
        prior == SubSeq(chain, 1, Len(chain) - 1)
    IN  [key |-> skey, controller |-> Some(c), value |-> chain[Len(chain)],
         history |-> IF ~withHistory THEN <<>>
                     ELSE IF newest THEN Reverse(prior) ELSE prior]

\* kv.get({ key, controller? }, { history: true }): the records under one key
kvGetKey(st, skey, controller, newest) ==
    LET owners == SelectSeq(ControllerOrder,
                            LAMBDA c : /\ st[<<skey, c>>] # <<>>
                                       /\ IsSome(controller) => c = Get(controller))
    IN  [i \in 1..Len(owners) |-> kvRecord(st, skey, owners[i], TRUE, newest)]

RECURSIVE SortedKeys(_)
SortedKeys(S) ==
    IF S = {} THEN <<>>
    ELSE LET k == CHOOSE x \in S : \A o \in S \ {x} : KeyBefore(x, o)
         IN  <<k>> \o SortedKeys(S \ {k})

\* the protocol-wide stream in ascending order: by store key, then controller
StreamOrder ==
    LET keys == SortedKeys(StoreKeys)
        n == Len(ControllerOrder)
    IN  [i \in 1..(Len(keys) * n) |->
            <<keys[((i - 1) \div n) + 1], ControllerOrder[((i - 1) % n) + 1]>>]

\* A store that holds more than one page of records: besides the keys above,
\* the keys of FillerRows entries that FillerOwner logged on the first date,
\* and the keys of the last date's entries that the paged calls are about.
RemoveDayPageSize == 500
FillerRows == RemoveDayPageSize
FillerOwner == "B"
fillerKey(i) == nextIdForDay(1, 1000 + i, "a")
FillerKeys == {fillerKey(i) : i \in 1..FillerRows}
PagedDate == DateOf(MaxClock)
PagedKeys == {nextIdForDay(PagedDate, MaxClock + i, "a") : i \in 0..1}
BigStoreDomain ==
    ((StoreKeys \cup PagedKeys) \X Controllers) \cup (FillerKeys \X {FillerOwner})

BigStreamOrder ==
    LET late == SortedKeys({k \in StoreKeys \cup PagedKeys : k.d > 1})
        n == Len(ControllerOrder)
    IN  SelectSeq(StreamOrder, LAMBDA p : p[1].d <= 1)
        \o [i \in 1..FillerRows |-> <<fillerKey(i), FillerOwner>>]
        \o [i \in 1..(Len(late) * n) |->
               <<late[((i - 1) \div n) + 1], ControllerOrder[((i - 1) % n) + 1]>>]

\* A store of less than one page that holds the keys of the last date too
PagedStoreDomain == (StoreKeys \cup PagedKeys) \X Controllers

PagedStreamOrder ==
    LET keys == SortedKeys(StoreKeys \cup PagedKeys)
        n == Len(ControllerOrder)
    IN  [i \in 1..(Len(keys) * n) |->
            <<keys[((i - 1) \div n) + 1], ControllerOrder[((i - 1) % n) + 1]>>]

StreamOrderOf(st) ==
    IF DOMAIN st = BigStoreDomain THEN BigStreamOrder
    ELSE IF DOMAIN st = PagedStoreDomain THEN PagedStreamOrder
    ELSE StreamOrder

kvStream(st) ==
    LET held == SelectSeq(StreamOrderOf(st), LAMBDA p : st[p] # <<>>)
    IN  [i \in 1..Len(held) |-> kvRecord(st, held[i][1], held[i][2], FALSE, FALSE)]

\* kv.get({ protocolID, limit, skip, sortOrder }): one page of the stream
kvGetPage(st, limit, skip, sortOrder) ==
    LET stream == IF sortOrder = "desc" THEN Reverse(kvStream(st)) ELSE kvStream(st)
    IN  Slice(stream, skip, skip + limit)

-----------------------------------------------------------------------------
(* listDay of the "entry" generation (src/src/GlossClient.ts 112-173): a    *)
(* bounded scan of the protocol-wide stream, filtered by date on the        *)
(* client.  Every value it reads here was written by log or                 *)
(* updateEntryByKey, so it parses and carries key, at and text.             *)

DefaultPageSize == 500
MaxPageSize == 2000
DefaultMaxPages == 20

\* lines 123-133: the entries one page adds to out
consider(page, date) ==
    LET kept == SelectSeq(page, LAMBDA rec : rec.value.ok /\ startsWithPrefix(rec.key, date))
    IN  [i \in 1..Len(kept) |->
            LET raw == kept[i].value.obj
            IN  LogEntry(Get(raw.key), Get(raw.at), Get(raw.text), raw.tags, raw.assets,
                         IF IsSome(kept[i].controller) THEN kept[i].controller
                         ELSE raw.controller)]

RECURSIVE scanPages(_, _, _, _, _, _, _, _, _)
\* lines 135-150
scanPages(st, date, page, skip, out, pageSize, maxPages, want, sortOrder) ==
    IF page >= maxPages THEN out
    ELSE LET res == kvGetPage(st, pageSize, skip, sortOrder)
         IN  IF Len(res) = 0 THEN out
             ELSE LET out2 == out \o consider(res, date)
                  IN  IF IsSome(want) /\ Len(out2) >= Get(want) THEN out2
                      ELSE scanPages(st, date, page + 1, skip + Len(res), out2,
                                     pageSize, maxPages, want, sortOrder)

\* e.tags?.some(t => options.tags.includes(t))
someTagIncluded(e, wanted) ==
    /\ IsSome(e.tags)
    /\ \E i \in 1..Len(Get(e.tags)) : Get(e.tags)[i] \in Range(wanted)

RECURSIVE InsertByKeyDesc(_, _)
InsertByKeyDesc(x, s) ==
    IF s = <<>> THEN <<x>>
    ELSE IF localeCompare(Head(s).key, x.key) < 0 THEN <<x>> \o s
         ELSE <<Head(s)>> \o InsertByKeyDesc(x, Tail(s))

RECURSIVE SortByKeyDesc(_)
\* filtered.sort((a, b) => b.key.localeCompare(a.key))
SortByKeyDesc(s) ==
    IF s = <<>> THEN <<>>
    ELSE InsertByKeyDesc(s[Len(s)], SortByKeyDesc(SubSeq(s, 1, Len(s) - 1)))

\* lines 116-118, 120 and the sortOrder default of line 139
scanPageSize(options) ==
    Max(1, Min(IF IsSome(options.pageSize) THEN Get(options.pageSize) ELSE DefaultPageSize,
               MaxPageSize))
scanMaxPages_Unbounded(options) ==
    IF IsSome(options.maxPages) THEN Max(1, Get(options.maxPages)) ELSE FillerRows

scanMaxPages(options) ==
    Max(1, IF IsSome(options.maxPages) THEN Get(options.maxPages) ELSE DefaultMaxPages)
scanWant(options) ==
    IF IsSome(options.limit) /\ Get(options.limit) > 0 THEN options.limit ELSE None
scanSkip(options) == Max(0, IF IsSome(options.skip) THEN Get(options.skip) ELSE 0)
scanSortOrder(options) == IF IsSome(options.sortOrder) THEN Get(options.sortOrder) ELSE "asc"

\* lines 153-160: the client-side filters
filterScanned(out, options) ==
    SelectSeq(out, LAMBDA e :
        /\ IsSome(options.controller) => e.controller = options.controller
        /\ (IsSome(options.tags) /\ Len(Get(options.tags)) > 0)
              => someTagIncluded(e, Get(options.tags)))

\* lines 162-170: the sort and the final limit
sortAndLimit(filtered, sortOrder, want) ==
    IF IsSome(want)
    THEN Slice(IF sortOrder = "asc" THEN SortByKey(filtered) ELSE SortByKeyDesc(filtered),
               0, Get(want))
    ELSE IF sortOrder = "asc" THEN SortByKey(filtered) ELSE SortByKeyDesc(filtered)

listDayScan(st, date, options) ==
    sortAndLimit(filterScanned(scanPages(st, date, 0, scanSkip(options), <<>>,
                                         scanPageSize(options), scanMaxPages(options),
                                         scanWant(options), scanSortOrder(options)),
                               options),
                 scanSortOrder(options), scanWant(options))

-----------------------------------------------------------------------------
(* getLogHistory *)

\* the comparator of lines 337-342; an empty `at` string is a negative tick
historyBefore(a, b) ==
    IF a.at >= 0 /\ b.at >= 0 THEN a.at > b.at ELSE KeyBefore(b.key, a.key)

RECURSIVE InsertNewestFirst(_, _)
InsertNewestFirst(x, s) ==
    IF s = <<>> THEN <<x>>
    ELSE IF historyBefore(x, Head(s)) THEN <<x>> \o s
         ELSE <<Head(s)>> \o InsertNewestFirst(x, Tail(s))

RECURSIVE sortHistory_Unsorted(_)
sortHistory_Unsorted(s) == s

RECURSIVE sortHistory(_)
\* history.sort(...): newest first by `at`, stable
sortHistory(s) ==
    IF s = <<>> THEN <<>>
    ELSE InsertNewestFirst(s[Len(s)], sortHistory(SubSeq(s, 1, Len(s) - 1)))

\* src/unnamed/part_001 297-345: every version under the day key that decodes
\* to the requested key
getLogHistoryDay(st, logKey, newest, env) ==
    LET rs == kvGetKey(st, dayKey(datePart(logKey)), None, newest)
        flat == FlattenRows(rs)
        dec == [i \in 1..Len(flat) |->
                   parseLogEntry(flat[i].value, flat[i].controller,
                                 [now |-> env.now, rand |-> RandAt(env, i)])]
        RECURSIVE Ingest(_)
        Ingest(i) ==
            IF i > Len(flat) THEN <<>>
            ELSE (IF IsSome(dec[i]) /\ Get(dec[i]).key = logKey
                  THEN <<cloneLog(Get(dec[i]))>> ELSE <<>>) \o Ingest(i + 1)
    IN  sortHistory(Ingest(1))

\* src/src/GlossClient.ts 287-327: the versions of the first record under the
\* entry's own key
getLogHistoryEntry(st, logKey, newest) ==
    LET rs == kvGetKey(st, entryKey(logKey), None, newest)
        flat == IF rs = <<>> THEN <<>> ELSE FlattenRows(<<rs[1]>>)
        ok == SelectSeq(flat, LAMBDA f : f.value.ok)
    IN  sortHistory([i \in 1..Len(ok) |->
            LET raw == ok[i].value.obj
            IN  LogEntry(Get(raw.key), Get(raw.at), Get(raw.text), raw.tags, raw.assets,
                         IF IsSome(ok[i].controller) THEN ok[i].controller
                         ELSE raw.controller)])

-----------------------------------------------------------------------------
(* Spec: the clients and the store.  Each client is a GlossClient instance  *)
(* of one identity; a call that reads the store and then writes to it is    *)
(* two steps, the client being suspended in between.                        *)

Clients == {"a1", "b1"}
ControllerOf(cl) == IF cl \in {"a1", "a2"} THEN "A" ELSE "B"

UpdateLimit == 1000
RemoveEntryLimit == 10000
RemoveEntryPageSize == 500
RemoveEntryMaxPages == 40

CreateLogOptions(tags, assets) == [tags |-> tags, assets |-> assets]
LogOptionsSet == { CreateLogOptions(Some(<<"x">>), None) }
UpdateOptionsSet == { CreateLogOptions(None, None) }

NoEntry == LogEntry(dayKey(0), 0, "", None, None, None)
Idle == [op |-> "idle", key |-> dayKey(0), options |-> CreateLogOptions(None, None),
         current |-> NoEntry, text |-> ""]
\* last: how the latest step ended, when it ended an updateEntryByKey, a
\* removeEntry or a removeDay: ok for an entry or true, threw for a rejection
NoLast == [op |-> "none", caller |-> "", key |-> dayKey(0), ok |-> FALSE, threw |-> FALSE]
Returned(op, cl, key, ok, threw) ==
    [op |-> op, caller |-> cl, key |-> key, ok |-> ok, threw |-> threw]

\* the keys a caller can name: those log can have issued by now
CallKeys == {k \in EntryKeys : k.t <= now}

ReadEnv == [now |-> now, rand |-> <<"a">>]

\* the listDay of the running generation
ListDay(st, date, options) ==
    IF layout = "day"
    THEN listDay(kvGetKey(st, dayKey(date), options.controller, newestFirst), options, ReadEnv)
    ELSE listDayScan(st, date, options)

GetLogHistory(st, logKey) ==
    IF layout = "day" THEN getLogHistoryDay(st, logKey, newestFirst, ReadEnv)
    ELSE getLogHistoryEntry(st, logKey, newestFirst)

\* myEntries.find(e => e.key === logKey)
find(entries, logKey) ==
    LET hits == SelectSeq(entries, LAMBDA e : e.key = logKey)
    IN  IF hits = <<>> THEN None ELSE Some(hits[1])

Init ==
    /\ rows = <<>>
    /\ call = NoCall
    /\ layout \in {"day", "entry"}
    /\ store = EmptyStore
    /\ now = 0
    /\ newestFirst \in BOOLEAN
    /\ pc = [cl \in Clients |-> Idle]
    /\ last = NoLast
    /\ created = {}
    /\ writes = 0
    /\ identityKey = None
    /\ lookups = 0

\* the caller takes the outcome of its call
Observe ==
    /\ last # NoLast
    /\ last' = NoLast
    /\ UNCHANGED <<identityKey, lookups, rows, call, layout, store, now, newestFirst, pc, created, writes>>

Tick ==
    /\ last = NoLast
    /\ now < MaxClock
    /\ now' = now + 1
    /\ UNCHANGED <<identityKey, lookups, rows, call, layout, store, newestFirst, pc, last, created, writes>>

\* log(text, options): part_001 82-103, GlossClient.ts 75-90 and 390-393
Log(cl) ==
    /\ last = NoLast
    /\ pc[cl].op = "idle"
    /\ writes < MaxWrites
    /\ \E options \in LogOptionsSet, r \in LogRand :
         LET day == DateOf(now)
             key == nextIdForDay(day, now, r)
             tags == Some(IF IsSome(options.tags) THEN Get(options.tags) ELSE <<>>)
             assets == Some(IF IsSome(options.assets) THEN Get(options.assets) ELSE <<>>)
             entry == LogEntry(key, now, ToText(writes + 1), tags, assets,
                               IF layout = "day" THEN Some(ControllerOf(cl)) ELSE None)
         IN  /\ store' = kvSet(store, IF layout = "day" THEN dayKey(day) ELSE entryKey(key),
                               ControllerOf(cl), stringify(entry))
             /\ created' = created \cup {<<key, ControllerOf(cl)>>}
             /\ last' = NoLast
    /\ writes' = writes + 1
    /\ UNCHANGED <<identityKey, lookups, rows, call, layout, now, newestFirst, pc>>

updateRead_AnyController(cl, logKey) ==
    find(ListDay(store, datePart(logKey), NoOptions), logKey)

\* updateEntryByKey up to its store write: the owner-filtered read and the find
updateRead(cl, logKey) ==
    find(ListDay(store, datePart(logKey),
                 IF layout = "day"
                 THEN [NoOptions EXCEPT !.controller = Some(ControllerOf(cl))]
                 ELSE [NoOptions EXCEPT !.controller = Some(ControllerOf(cl)),
                                        !.limit = Some(UpdateLimit)]),
         logKey)

\* part_001 258-270, GlossClient.ts 257-267
UpdateRead(cl, logKey) ==
    /\ last = NoLast
    /\ pc[cl].op = "idle"
    /\ writes < MaxWrites
    /\ \E options \in UpdateOptionsSet :
         LET current == updateRead(cl, logKey)
         IN  IF ~IsSome(current)
             THEN /\ last' = Returned("updateEntryByKey", cl, logKey, FALSE, FALSE)
                  /\ UNCHANGED <<pc, writes>>
             ELSE /\ pc' = [pc EXCEPT ![cl] = [op |-> "update", key |-> logKey,
                                               options |-> options, current |-> Get(current),
                                               text |-> ToText(writes + 1)]]
                  /\ writes' = writes + 1
                  /\ last' = NoLast
    /\ UNCHANGED <<identityKey, lookups, rows, call, layout, store, now, newestFirst, created>>

updatedEntry_FreshKey(cl, p, at) ==
    LET tags == IF IsSome(p.options.tags) THEN p.options.tags ELSE p.current.tags
        assets == IF IsSome(p.options.assets) THEN p.options.assets ELSE p.current.assets
    IN  LogEntry(nextIdForDay(DateOf(at), at, "a"), at, p.text, tags, assets,
                 IF layout = "day" THEN Some(ControllerOf(cl)) ELSE None)

\* the entry updateEntryByKey builds: part_001 273-280, GlossClient.ts 269-275
updatedEntry(cl, p, at) ==
    LET current == p.current
        tags == IF IsSome(p.options.tags) THEN p.options.tags
                ELSE IF IsSome(current.tags) THEN current.tags ELSE Some(<<>>)
        assets == IF IsSome(p.options.assets) THEN p.options.assets
                  ELSE IF IsSome(current.assets) THEN current.assets ELSE Some(<<>>)
    IN  IF layout = "day"
        THEN LogEntry(p.key, at, p.text, tags, assets, Some(ControllerOf(cl)))
        ELSE LogEntry(current.key, at, p.text, tags, assets, None)

\* part_001 283-287, GlossClient.ts 277-278
UpdateWrite(cl) ==
    /\ last = NoLast
    /\ pc[cl].op = "update"
    /\ LET updated == updatedEntry(cl, pc[cl], now)
       IN  /\ store' = kvSet(store,
                             IF layout = "day" THEN dayKey(datePart(pc[cl].key))
                             ELSE entryKey(updated.key),
                             ControllerOf(cl), stringify(updated))
           /\ last' = Returned("updateEntryByKey", cl, pc[cl].key, TRUE, FALSE)
    /\ pc' = [pc EXCEPT ![cl] = Idle]
    /\ UNCHANGED <<identityKey, lookups, rows, call, layout, now, newestFirst, created, writes>>

\* kv.remove rejects when the caller holds no record under the key, and may
\* reject for reasons of its own (fails)
removeThrows(st, skey, c, fails) == fails \/ st[<<skey, c>>] = <<>>

removeDay_AlwaysTrue(st, cl, date, fails) ==
    [store |-> kvRemove(st, dayKey(date), ControllerOf(cl)), ok |-> TRUE]

\* removeDay of part_001 239-245: the outcome [store, ok] of one kv.remove of
\* the day key, a rejection caught and turned into false
removeDay(st, cl, date, fails) ==
    IF removeThrows(st, dayKey(date), ControllerOf(cl), fails)
    THEN [store |-> st, ok |-> FALSE]
    ELSE [store |-> kvRemove(st, dayKey(date), ControllerOf(cl)), ok |-> TRUE]

\* part_001 239-245
RemoveDay(cl) ==
    /\ layout = "day"
    /\ last = NoLast
    /\ pc[cl].op = "idle"
    /\ \E date \in Dates, fails \in BOOLEAN :
         LET res == removeDay(store, cl, date, fails)
         IN  /\ store' = res.store
             /\ last' = Returned("removeDay", cl, dayKey(date), res.ok, FALSE)
    /\ UNCHANGED <<identityKey, lookups, rows, call, layout, now, newestFirst, pc, created, writes>>

\* removeEntry of part_001 222-230: the day of the key is removed
RemoveEntryDay(cl, logKey) ==
    /\ layout = "day"
    /\ last = NoLast
    /\ pc[cl].op = "idle"
    /\ \E fails \in BOOLEAN :
         LET res == removeDay(store, cl, datePart(logKey), fails)
         IN  /\ store' = res.store
             /\ last' = Returned("removeEntry", cl, logKey, res.ok, FALSE)
    /\ UNCHANGED <<identityKey, lookups, rows, call, layout, now, newestFirst, pc, created, writes>>

\* removeEntry of GlossClient.ts 190-204 up to its kv.remove
removeRead(cl, logKey) ==
    find(listDayScan(store, datePart(logKey),
                     [NoOptions EXCEPT !.controller = Some(ControllerOf(cl)),
                                       !.limit = Some(RemoveEntryLimit),
                                       !.pageSize = Some(RemoveEntryPageSize),
                                       !.maxPages = Some(RemoveEntryMaxPages),
                                       !.sortOrder = Some("asc")]),
         logKey)

\* GlossClient.ts 190-204
RemoveRead(cl, logKey) ==
    /\ layout = "entry"
    /\ last = NoLast
    /\ pc[cl].op = "idle"
    /\ LET entry == removeRead(cl, logKey)
       IN  IF ~IsSome(entry)
             THEN /\ last' = Returned("removeEntry", cl, logKey, FALSE, FALSE)
                  /\ UNCHANGED pc
             ELSE /\ pc' = [pc EXCEPT ![cl] = [Idle EXCEPT !.op = "remove", !.key = logKey,
                                                           !.current = Get(entry)]]
                  /\ last' = NoLast
    /\ UNCHANGED <<identityKey, lookups, rows, call, layout, store, now, newestFirst, created, writes>>

\* GlossClient.ts 206-207
RemoveCommit(cl) ==
    /\ last = NoLast
    /\ pc[cl].op = "remove"
    /\ \E fails \in BOOLEAN :
         LET skey == entryKey(pc[cl].current.key)
         IN  IF removeThrows(store, skey, ControllerOf(cl), fails)
             THEN /\ last' = Returned("removeEntry", cl, pc[cl].key, FALSE, TRUE)
                  /\ UNCHANGED store
             ELSE /\ store' = kvRemove(store, skey, ControllerOf(cl))
                  /\ last' = Returned("removeEntry", cl, pc[cl].key, TRUE, FALSE)
    /\ pc' = [pc EXCEPT ![cl] = Idle]
    /\ UNCHANGED <<identityKey, lookups, rows, call, layout, now, newestFirst, created, writes>>

Next ==
    \/ Tick
    \/ Observe
    \/ \E cl \in Clients : Log(cl)
    \/ \E cl \in Clients, logKey \in CallKeys : UpdateRead(cl, logKey)
    \/ \E cl \in Clients : UpdateWrite(cl)
    \/ \E cl \in Clients : RemoveDay(cl)
    \/ \E cl \in Clients, logKey \in CallKeys : RemoveEntryDay(cl, logKey)
    \/ \E cl \in Clients, logKey \in CallKeys : RemoveRead(cl, logKey)
    \/ \E cl \in Clients : RemoveCommit(cl)

Spec == Init /\ [][Next]_vars

-----------------------------------------------------------------------------
(* Claims about the clients and the store (Spec) *)

ControllerFilters == {None} \cup {Some(c) : c \in Controllers}
CreatedBy(K) == {c \in Controllers : <<K, c>> \in created}
OwnedBy(c) == [NoOptions EXCEPT !.controller = Some(c)]
\* the entry of key K that listDay shows for controller c
OwnEntry(st, c, K) == find(ListDay(st, datePart(K), OwnedBy(c)), K)
StoreKeyOf(K) == IF layout = "day" THEN dayKey(datePart(K)) ELSE entryKey(K)
\* the values written under key K by controller c and still held, oldest first
VersionsOf(st, c, K) ==
    LET held == SelectSeq(st[<<StoreKeyOf(K), c>>], LAMBDA v : v.obj.key = Some(K))
    IN  [i \in 1..Len(held) |-> [at |-> Get(held[i].obj.at), text |-> Get(held[i].obj.text)]]
AtAndText(entries) == [i \in 1..Len(entries) |-> [at |-> entries[i].at, text |-> entries[i].text]]
StrictlyIncreasingAt(vs) == \A i \in 1..(Len(vs) - 1) : vs[i].at < vs[i + 1].at

(* C3: listDay(date, {skip, limit}) is the slice [max(0,skip),               *)
(* max(0,skip)+limit) of the filtered, key-sorted list of the date's         *)
(* entries (everything from max(0,skip) on without a positive limit): skip   *)
(* and limit count filtered entries of the date, not rows of the store's     *)
(* protocol-wide stream.                                                     *)
C3_SkipLimitSliceFiltered ==
    \A date \in Dates, c \in ControllerFilters,
       skip \in {None, Some(1)}, limit \in {None, Some(1)} :
        LET full == ListDay(store, date, [NoOptions EXCEPT !.controller = c])
            got == ListDay(store, date, [NoOptions EXCEPT !.controller = c,
                                                          !.skip = skip, !.limit = limit])
            from == Max(0, IF IsSome(skip) THEN Get(skip) ELSE 0)
        IN  got = IF IsSome(limit) /\ Get(limit) > 0
                  THEN Slice(full, from, from + Get(limit))
                  ELSE Slice(full, from, Len(full))

ScanOptions == { [pageSize |-> None, maxPages |-> None],
                 [pageSize |-> Some(1), maxPages |-> Some(1)] }

(* C5: for any store snapshot and filters, listDay returns the entries in    *)
(* ascending key order by default, and with sortOrder 'desc' (same snapshot, *)
(* same other options, no skip or limit) the exact reverse of that sequence. *)
C5_DescReversesAsc ==
    \A date \in Dates, c \in ControllerFilters, scan \in ScanOptions :
        LET options == [NoOptions EXCEPT !.controller = c, !.pageSize = scan.pageSize,
                                         !.maxPages = scan.maxPages]
            asc == ListDay(store, date, options)
            desc == ListDay(store, date, [options EXCEPT !.sortOrder = Some("desc")])
        IN  IsAscending(asc) /\ desc = Reverse(asc)

(* C6: when key K was created by another controller and not by the caller's  *)
(* identity, the caller's updateEntryByKey(K, ...) returns undefined, writes *)
(* nothing to the store, and leaves the creator's entry as listDay shows it  *)
(* unchanged.                                                                *)
C6_UpdateByNonOwner ==
    [][\A cl \in Clients, K \in EntryKeys :
          (UpdateRead(cl, K) /\ CreatedBy(K) # {} /\ ControllerOf(cl) \notin CreatedBy(K))
          => /\ last' = Returned("updateEntryByKey", cl, K, FALSE, FALSE)
             /\ pc'[cl].op = "idle"
             /\ store' = store
             /\ \A a \in CreatedBy(K) : OwnEntry(store', a, K) = OwnEntry(store, a, K)]_vars

\* B's update of a key that A created, B did not, and A still holds has returned
C6_Witness ==
    \E K \in EntryKeys :
        /\ last = Returned("updateEntryByKey", "b1", K, FALSE, FALSE)
        /\ CreatedBy(K) = {"A"}
        /\ IsSome(OwnEntry(store, "A", K))

(* C7: removeEntry(K) touches the store only after the owner-filtered read   *)
(* of K's date found an entry with key K owned by the caller; when there is  *)
(* none, it returns false and leaves the store unchanged.                    *)
C7_RemoveOnlyAfterOwnedRead ==
    [][\A cl \in Clients, K \in EntryKeys :
          (/\ last = NoLast
           /\ last'.op = "removeEntry" /\ last'.caller = cl /\ last'.key = K
           /\ ~IsSome(OwnEntry(store, ControllerOf(cl), K)))
          => (~last'.ok /\ store' = store)]_vars

(* C8: after removeEntry(K) returns true, every other entry of the caller    *)
(* on K's date is still returned by listDay for that date, unchanged.        *)
C8_RemovalIsGranular ==
    [][\A cl \in Clients, K \in EntryKeys :
          (last = NoLast /\ last' = Returned("removeEntry", cl, K, TRUE, FALSE))
          => LET before == ListDay(store, datePart(K), OwnedBy(ControllerOf(cl)))
                 after == ListDay(store', datePart(K), OwnedBy(ControllerOf(cl)))
             IN  \A i \in 1..Len(before) :
                    before[i].key # K => \E j \in 1..Len(after) : after[j] = before[i]]_vars

(* C9: an update keeps the entry's identity.  The entry updateEntryByKey is  *)
(* about to write has the key it was asked for, and the controller fields    *)
(* log gave it; once it has returned the entry for a key K of the caller's   *)
(* alone, the stored value has key K under the caller's controller, and      *)
(* getLogHistory(K) returns every version written under K, each with key K   *)
(* and that controller.                                                      *)
C9_UpdatePreservesIdentity ==
    /\ \A cl \in Clients :
          pc[cl].op = "update"
          => /\ pc[cl].current.key = pc[cl].key
             /\ updatedEntry(cl, pc[cl], now).key = pc[cl].key
             /\ updatedEntry(cl, pc[cl], now).controller =
                    IF layout = "day" THEN Some(ControllerOf(cl)) ELSE None
    /\ \A cl \in Clients, K \in EntryKeys :
          (last = Returned("updateEntryByKey", cl, K, TRUE, FALSE)
              /\ CreatedBy(K) = {ControllerOf(cl)})
          => LET c == ControllerOf(cl)
                 chain == store[<<StoreKeyOf(K), c>>]
                 versions == VersionsOf(store, c, K)
                 history == GetLogHistory(store, K)
             IN  /\ chain # <<>>
                 /\ chain[Len(chain)].obj.key = Some(K)
                 /\ IsSome(OwnEntry(store, c, K))
                 /\ Get(OwnEntry(store, c, K)).controller = Some(c)
                 /\ Len(versions) >= 2
                 /\ \A i \in 1..Len(history) :
                        history[i].key = K /\ history[i].controller = Some(c)
                 /\ \A v \in Range(versions) : v \in Range(AtAndText(history))

\* a second update of A's key has returned, and the history holds three versions
C9_Witness ==
    \E K \in EntryKeys :
        /\ last = Returned("updateEntryByKey", "a1", K, TRUE, FALSE)
        /\ CreatedBy(K) = {"A"}
        /\ Len(GetLogHistory(store, K)) = 3

(* C10: for a key of one controller whose versions were written at strictly  *)
(* increasing times, getLogHistory returns them newest first, [v3, v2, v1]   *)
(* for a create and two updates, whichever direction the store lists a       *)
(* record's history in.                                                      *)
C10_HistoryNewestFirst ==
    \A K \in EntryKeys, c \in Controllers :
        (CreatedBy(K) = {c} /\ StrictlyIncreasingAt(VersionsOf(store, c, K)))
        => AtAndText(GetLogHistory(store, K)) = Reverse(VersionsOf(store, c, K))

\* three versions at three times, in a store that lists history oldest first
C10_Witness ==
    \E K \in EntryKeys, c \in Controllers :
        /\ CreatedBy(K) = {c}
        /\ Len(VersionsOf(store, c, K)) = 3
        /\ StrictlyIncreasingAt(VersionsOf(store, c, K))
        /\ ~newestFirst

(* C11: create/list round trip.  When log(text, {tags}) has written an       *)
(* entry under a key K that no other controller has created, listDay of the  *)
(* creation date without filters returns exactly one entry with key K; it    *)
(* carries that text and those tags, and the date part of K is the creation  *)
(* date; every key the author held on that date before (a key of the         *)
(* author's alone) is still returned.                                        *)
C11_CreateListRoundTrip ==
    [][\A cl \in Clients, K \in EntryKeys :
          LET c == ControllerOf(cl)
              chain == store'[<<StoreKeyOf(K), c>>]
          IN  (/\ Log(cl)
               /\ chain # store[<<StoreKeyOf(K), c>>]
               /\ chain[Len(chain)].obj.key = Some(K)
               /\ CreatedBy(K) \subseteq {c})
              => LET date == DateOf(now)
                     out == ListDay(store', date, NoOptions)
                     hits == SelectSeq(out, LAMBDA e : e.key = K)
                     earlier == ListDay(store, date, OwnedBy(c))
                 IN  /\ Len(hits) = 1
                     /\ hits[1].text = ToText(writes + 1)
                     /\ \A options \in LogOptionsSet :
                            hits[1].tags = IF IsSome(options.tags) THEN options.tags
                                           ELSE Some(<<>>)
                     /\ datePart(hits[1].key) = date
                     /\ \A i \in 1..Len(earlier) :
                            (earlier[i].key # K /\ CreatedBy(earlier[i].key) = {c})
                            => \E j \in 1..Len(out) :
                                  /\ out[j].key = earlier[i].key
                                  /\ out[j].controller = earlier[i].controller]_vars

\* A has logged twice on one date, at two clock ticks, and both entries are listed
C11_Witness ==
    \E K \in EntryKeys :
        LET chain == store[<<StoreKeyOf(K), "A">>]
            out == ListDay(store, DateOf(now), NoOptions)
        IN  /\ K.t = now
            /\ created = {<<K, "A">>, <<nextIdForDay(DateOf(now), now - 1, "a"), "A">>}
            /\ DateOf(now - 1) = DateOf(now)
            /\ chain # <<>> /\ chain[Len(chain)].obj.key = Some(K)
            /\ Len(out) = 2
            /\ \E i \in 1..2 : out[i].key = K /\ out[i].tags = Some(<<"x">>)

-----------------------------------------------------------------------------
(* SpecPaged: the paged calls on a store of more than one page.  The store  *)
(* is one that log calls have built: the filler entries of the first date,  *)
(* and entries of the last date logged by the two clients.  One call runs   *)
(* at a time; listDay of the "entry" generation is taken fetch by fetch,    *)
(* removeDay list by list and removal by removal.                           *)

\* what log wrote for key k under controller c
loggedValue(lay, k, c) ==
    stringify(LogEntry(k, k.t, "i", Some(<<>>), Some(<<>>),
                       IF lay = "day" THEN Some(c) ELSE None))

\* the store after FillerOwner logged n filler entries and each controller c
\* logged the entries of held[c], in key order
loggedStore(lay, n, held) ==
    [p \in BigStoreDomain |->
        IF p[1] \in FillerKeys
        THEN IF lay = "entry" /\ p[1].t <= 1000 + n
             THEN <<loggedValue(lay, p[1], p[2])>> ELSE <<>>
        ELSE IF lay = "entry"
             THEN IF p[1] \in held[p[2]] THEN <<loggedValue(lay, p[1], p[2])>> ELSE <<>>
             ELSE IF p[1] = dayKey(PagedDate)
                  THEN LET keys == SortedKeys(held[p[2]])
                       IN  [i \in 1..Len(keys) |-> loggedValue(lay, keys[i], p[2])]
                  ELSE <<>>]

FillerChoices == {0, FillerRows - 1, FillerRows}

PagedStores ==
    { [lay |-> lay, store |-> loggedStore(lay, n, [A |-> own, B |-> other])] :
        lay \in {"day", "entry"}, n \in FillerChoices,
        own \in SUBSET PagedKeys, other \in {{}, {nextIdForDay(PagedDate, MaxClock, "a")}} }

PagedOptions ==
    { [NoOptions EXCEPT !.pageSize = ps, !.maxPages = mp, !.limit = lim, !.controller = c] :
        ps \in {None, Some(0), Some(5000)},
        mp \in {None, Some(0), Some(2)},
        lim \in {None, Some(1)},
        c \in {None, Some("A")} }

InitPaged ==
    /\ rows = <<>>
    /\ call = NoCall
    /\ \E s \in PagedStores : layout = s.lay /\ store = s.store
    /\ now = MaxClock
    /\ newestFirst \in IF layout = "day" THEN BOOLEAN ELSE {FALSE}
    /\ pc = [cl \in Clients |-> Idle]
    /\ last = NoLast
    /\ created = {}
    /\ writes = 0
    /\ identityKey = None
    /\ lookups = 0

NoneRunning == \A cl \in Clients : pc[cl].op = "idle"

\* GlossClient.ts 112-121: listDay up to its first fetch
ListDayBegin(cl) ==
    /\ layout = "entry"
    /\ last = NoLast
    /\ NoneRunning
    /\ \E options \in PagedOptions :
         pc' = [pc EXCEPT ![cl] = [op |-> "listDay", date |-> PagedDate, options |-> options,
                                   page |-> 0, skip |-> scanSkip(options), out |-> <<>>,
                                   fetches |-> 0, limits |-> {}, done |-> FALSE]]
    /\ UNCHANGED <<identityKey, lookups, rows, call, layout, store, now, newestFirst, last,
                   created, writes>>

\* GlossClient.ts 135-150: one turn of the loop, with its kv.get
ListDayFetch(cl) ==
    /\ pc[cl].op = "listDay"
    /\ ~pc[cl].done
    /\ pc[cl].page < scanMaxPages(pc[cl].options)
    /\ LET p == pc[cl]
           res == kvGetPage(store, scanPageSize(p.options), p.skip, scanSortOrder(p.options))
           out2 == p.out \o consider(res, p.date)
           want == scanWant(p.options)
           asked == [p EXCEPT !.fetches = @ + 1,
                              !.limits = @ \cup {scanPageSize(p.options)}]
       IN  pc' = [pc EXCEPT ![cl] =
                    IF Len(res) = 0 THEN [asked EXCEPT !.done = TRUE]
                    ELSE IF IsSome(want) /\ Len(out2) >= Get(want)
                         THEN [asked EXCEPT !.out = out2, !.done = TRUE]
                         ELSE [asked EXCEPT !.out = out2, !.page = @ + 1,
                                            !.skip = @ + Len(res)]]
    /\ UNCHANGED <<identityKey, lookups, rows, call, layout, store, now, newestFirst, last,
                   created, writes>>

\* GlossClient.ts 152-172: the loop is left; filter, sort, limit, return
ListDayReturn(cl) ==
    /\ pc[cl].op = "listDay"
    /\ pc[cl].done \/ pc[cl].page >= scanMaxPages(pc[cl].options)
    /\ LET p == pc[cl]
       IN  last' = [op |-> "listDay", caller |-> cl, key |-> dayKey(p.date), ok |-> TRUE,
                    threw |-> FALSE, options |-> p.options, fetches |-> p.fetches,
                    limits |-> p.limits, seen |-> p.out,
                    out |-> sortAndLimit(filterScanned(p.out, p.options),
                                         scanSortOrder(p.options), scanWant(p.options))]
    /\ pc' = [pc EXCEPT ![cl] = Idle]
    /\ UNCHANGED <<identityKey, lookups, rows, call, layout, store, now, newestFirst,
                   created, writes>>

\* the options of removeDay's listDay call: GlossClient.ts 225-232
removeDayOptions(cl, skip) ==
    [NoOptions EXCEPT !.controller = Some(ControllerOf(cl)),
                      !.limit = Some(RemoveDayPageSize), !.skip = Some(skip),
                      !.pageSize = Some(RemoveDayPageSize), !.maxPages = Some(1),
                      !.sortOrder = Some("asc")]

pageIsEmpty_Never(page) == FALSE

\* GlossClient.ts 243: `skip += pageSize`
nextSkip(skip) == skip + RemoveDayPageSize

\* GlossClient.ts 234: `if (page.length === 0) break`
pageIsEmpty(page) == Len(page) = 0

\* the entry keys of a date that controller c holds in the store
HeldKeys(st, c, date) ==
    {K \in PagedKeys : K.d = date /\ \E i \in 1..Len(st[<<StoreKeyOf(K), c>>]) :
                                        st[<<StoreKeyOf(K), c>>][i].obj.key = Some(K)}

\* GlossClient.ts 216-222: removeDay up to its first listDay; had records the
\* caller's keys of the date at that moment.  The store either shows the
\* call's removals to its later reads, or (stale) keeps answering them from
\* the contents it had when the call began (view).
RemoveDayCall(cl) ==
    /\ layout = "entry"
    /\ last = NoLast
    /\ NoneRunning
    /\ \E stale \in BOOLEAN :
         pc' = [pc EXCEPT ![cl] = [op |-> "removeDay", date |-> PagedDate, skip |-> 0,
                                   page |-> <<>>, removedAny |-> FALSE,
                                   had |-> HeldKeys(store, ControllerOf(cl), PagedDate),
                                   stale |-> stale, view |-> store]]
    /\ UNCHANGED <<identityKey, lookups, rows, call, layout, store, now, newestFirst, last,
                   created, writes>>

\* GlossClient.ts 224-234 and 244: the listDay of one turn; an empty page ends
\* the loop and the call
removeDayPage(cl) ==
    LET p == pc[cl]
    IN  listDayScan(IF p.stale THEN p.view ELSE store, p.date, removeDayOptions(cl, p.skip))

RemoveDayList(cl) ==
    /\ pc[cl].op = "removeDay"
    /\ pc[cl].page = <<>>
    /\ LET p == pc[cl]
           page == removeDayPage(cl)
       IN  IF pageIsEmpty(page)
           THEN /\ last' = Returned("removeDay", cl, dayKey(p.date), p.removedAny, FALSE)
                /\ pc' = [pc EXCEPT ![cl] = Idle]
           ELSE /\ pc' = [pc EXCEPT ![cl].page = page]
                /\ UNCHANGED last
    /\ UNCHANGED <<identityKey, lookups, rows, call, layout, store, now, newestFirst,
                   created, writes>>

\* GlossClient.ts 236-241: kv.remove of the next entry of the page; a
\* rejection leaves removeDay as an exception
RemoveDayRemove(cl) ==
    /\ pc[cl].op = "removeDay"
    /\ pc[cl].page # <<>>
    /\ \E fails \in BOOLEAN :
         LET p == pc[cl]
             skey == entryKey(Head(p.page).key)
         IN  IF removeThrows(store, skey, ControllerOf(cl), fails)
             THEN /\ last' = Returned("removeDay", cl, dayKey(p.date), FALSE, TRUE)
                  /\ pc' = [pc EXCEPT ![cl] = Idle]
                  /\ UNCHANGED store
             ELSE /\ store' = kvRemove(store, skey, ControllerOf(cl))
                  /\ pc' = [pc EXCEPT ![cl] =
                               [p EXCEPT !.page = Tail(@), !.removedAny = TRUE,
                                         !.skip = IF Len(p.page) = 1
                                                  THEN nextSkip(@) ELSE @]]
                  /\ UNCHANGED last
    /\ UNCHANGED <<identityKey, lookups, rows, call, layout, now, newestFirst, created, writes>>

NextPaged ==
    \/ Observe
    \/ \E cl \in Clients : ListDayBegin(cl)
    \/ \E cl \in Clients : ListDayFetch(cl)
    \/ \E cl \in Clients : ListDayReturn(cl)
    \/ \E cl \in Clients : RemoveDayCall(cl)
    \/ \E cl \in Clients : RemoveDayList(cl)
    \/ \E cl \in Clients : RemoveDayRemove(cl)
    \/ \E cl \in Clients : RemoveDay(cl)

SpecPaged == InitPaged /\ [][NextPaged]_vars

-----------------------------------------------------------------------------
(* Claims about the paged calls (SpecPaged) *)

(* C12: when removeDay(date) has returned, no writer having run meanwhile    *)
(* and the store having accepted the removals asked of it, listDay(date,     *)
(* {controller: caller}) is empty, however many entries the caller had and   *)
(* wherever other authors' and other dates' records lie in the stream.       *)
C12_RemoveDayRemovesAll ==
    \A cl \in Clients :
        (/\ last.op = "removeDay" /\ last.caller = cl
         /\ ~last.threw
         /\ layout = "day" => last.ok)
        => ListDay(store, datePart(last.key), OwnedBy(ControllerOf(cl))) = <<>>

(* C13: removeDay(date) returns true if and only if it removed at least one  *)
(* entry of the caller, and returns false when the caller has no entry of    *)
(* that date.                                                                *)
C13_RemoveDayReturnsWhetherRemoved ==
    [][\A cl \in Clients :
          (/\ last = NoLast
           /\ last'.op = "removeDay" /\ last'.caller = cl
           /\ ~last'.threw)
          => LET c == ControllerOf(cl)
                 date == datePart(last'.key)
                 had == IF layout = "day" THEN HeldKeys(store, c, date) ELSE pc[cl].had
                 left == HeldKeys(store', c, date)
             IN  /\ last'.ok <=> (had \ left # {})
                 /\ had = {} => ~last'.ok]_vars

\* removeDay has returned true to A, who held two entries and holds none
\* now, in a store where B still holds one
C13_Witness ==
    /\ last = Returned("removeDay", "a1", dayKey(PagedDate), TRUE, FALSE)
    /\ layout = "entry"
    /\ HeldKeys(store, "A", PagedDate) = {}
    /\ HeldKeys(store, "B", PagedDate) # {}
    /\ store[<<fillerKey(FillerRows - 1), FillerOwner>>] # <<>>

\* the bounds of the scan as the claim words them
ClaimedFetchBudget(options) ==
    IF IsSome(options.maxPages) THEN Max(1, Get(options.maxPages)) ELSE 20
ClaimedPageSize(options) ==
    IF IsSome(options.pageSize) THEN Max(1, Min(2000, Get(options.pageSize))) ELSE 500

(* C16: one listDay call issues at most max(1, maxPages) store fetches, 20   *)
(* when maxPages is absent, each asking for a page of the size clamped to    *)
(* [1, 2000], 500 when absent; whatever number of fetches ends the scan,     *)
(* the budget's included, listDay raises nothing and returns from the        *)
(* entries of the date accumulated over the rows read so far (those of them  *)
(* that pass the filters).                                                   *)
C16_ScanIsBounded ==
    /\ \A cl \in Clients :
          pc[cl].op = "listDay"
          => /\ pc[cl].fetches <= ClaimedFetchBudget(pc[cl].options)
             /\ pc[cl].limits \subseteq {ClaimedPageSize(pc[cl].options)}
    /\ last.op = "listDay"
       => LET from == Max(0, IF IsSome(last.options.skip) THEN Get(last.options.skip) ELSE 0)
              read == Slice(kvStream(store), from,
                            from + last.fetches * ClaimedPageSize(last.options))
              accumulated == consider(read, datePart(last.key))
          IN  /\ last.fetches <= ClaimedFetchBudget(last.options)
              /\ last.limits \subseteq {ClaimedPageSize(last.options)}
              /\ ~last.threw
              /\ last.seen = accumulated
              /\ Range(last.out) \subseteq Range(accumulated)
              /\ ~IsSome(last.options.limit)
                    => Range(last.out) = Range(filterScanned(accumulated, last.options))

\* the default budget of 20 fetches was spent on pages of one row without a
\* match, and listDay returned the empty list although A holds an entry
C16_Witness ==
    /\ last.op = "listDay"
    /\ last.options.maxPages = None
    /\ last.options.pageSize = Some(0)
    /\ last.options.limit = Some(1)
    /\ last.fetches = 20
    /\ last.out = <<>>
    /\ HeldKeys(store, "A", PagedDate) # {}

-----------------------------------------------------------------------------
(* SpecIdentity: one GlossClient instance and the calls made on it, each    *)
(* an asynchronous task of its own.  A call runs without interruption up    *)
(* to its first await, the one of ensureIdentityKey; the operation's own    *)
(* reads and writes are left out, only the key it goes on with is kept.     *)

MaxCalls == 3       \* the calls that can be in flight on the instance at once

Calls == 1..MaxCalls
\* the operations that start with `await this.ensureIdentityKey()`
IdentityOps == {"log", "updateEntryByKey", "removeEntry", "removeDay"}
\* result.publicKey: the wallet's identity key
WalletKey == "A"

NotCalled == [op |-> "idle", at |-> "idle", key |-> None]

InitIdentity ==
    /\ rows = <<>>
    /\ call = NoCall
    /\ layout = "day"
    /\ store = EmptyStore
    /\ now = 0
    /\ newestFirst = FALSE
    /\ pc = [t \in Calls |-> NotCalled]
    /\ last = NoLast
    /\ created = {}
    /\ writes = 0
    /\ identityKey = None
    /\ lookups = 0

\* part_001 65-67: the call enters ensureIdentityKey, which tests the field
\* and, finding it unset, calls wallet.getPublicKey and awaits it
CallStarts(t, op) ==
    /\ pc[t].at = "idle"
    /\ IF ~IsSome(identityKey)
       THEN /\ lookups' = lookups + 1
            /\ pc' = [pc EXCEPT ![t] = [op |-> op, at |-> "getPublicKey", key |-> None]]
       ELSE /\ UNCHANGED lookups
            /\ pc' = [pc EXCEPT ![t] = [op |-> op, at |-> "resumes", key |-> identityKey]]
    /\ UNCHANGED <<identityKey, rows, call, layout, store, now, newestFirst, last,
                   created, writes>>

\* part_001 67-70: the wallet answers; the field is assigned and returned
WalletAnswers(t) ==
    /\ pc[t].at = "getPublicKey"
    /\ identityKey' = Some(WalletKey)
    /\ pc' = [pc EXCEPT ![t] = [@ EXCEPT !.at = "resumes", !.key = Some(WalletKey)]]
    /\ UNCHANGED <<lookups, rows, call, layout, store, now, newestFirst, last,
                   created, writes>>

\* the operation goes on with the key it was given, and ends
CallEnds(t) ==
    /\ pc[t].at = "resumes"
    /\ last' = [op |-> pc[t].op, caller |-> t, key |-> pc[t].key, ok |-> TRUE, threw |-> FALSE]
    /\ pc' = [pc EXCEPT ![t] = NotCalled]
    /\ UNCHANGED <<identityKey, lookups, rows, call, layout, store, now, newestFirst,
                   created, writes>>

NextIdentity ==
    \/ \E t \in Calls, op \in IdentityOps : CallStarts(t, op)
    \/ \E t \in Calls : WalletAnswers(t)
    \/ \E t \in Calls : CallEnds(t)

SpecIdentity == InitIdentity /\ [][NextIdentity]_vars

(* C15: on one instance, across any sequence and interleaving of log,        *)
(* updateEntryByKey, removeEntry and removeDay calls, calls started before   *)
(* an earlier lookup has resolved included, wallet.getPublicKey is invoked   *)
(* at most once, and every operation goes on with the same controller key.   *)
C15_IdentityLookedUpOnce ==
    /\ lookups <= 1
    /\ \A t \in Calls : pc[t].at = "resumes" => pc[t].key = Some(WalletKey)

-----------------------------------------------------------------------------
(* SpecDecode: the reads of the "day" generation on a day record that       *)
(* holds values of any shape, as other writers of the protocol and earlier  *)
(* generations of the client have left them: text that is no JSON, objects  *)
(* lacking fields, entries that embed another controller or the key of      *)
(* another date, legacy day-chain containers.  The store is filled one      *)
(* value at a time; then one read is made and its result recorded.          *)

DecodeDate == DateOf(0)
KOther == nextIdForDay(DateOf(MaxClock), MaxClock, "b")

Raw(key, text, controller) ==
    RawObject(key, Some(0), text, Some(<<"x">>), None, controller)

DecodeValues ==
    { Malformed,
      ObjectValue(Raw(Some(K1), Some("i"), None)),
      ObjectValue(Raw(Some(K1), Some("ii"), Some("B"))),
      ObjectValue(Raw(None, Some("iii"), None)),
      ObjectValue(Raw(Some(K2), None, None)),
      ObjectValue(Raw(Some(KOther), Some("iv"), None)),
      ChainValue(<<Raw(Some(K2), Some("v"), None), Raw(Some(K3), Some("vi"), None)>>),
      ObjectValue(Raw(None, None, None)) }

DecodeKeys == {K1, K2, K3, KOther}

InitDecode ==
    /\ rows = <<>>
    /\ call = NoCall
    /\ layout = "day"
    /\ store = EmptyStore
    /\ now = MaxClock
    /\ newestFirst \in BOOLEAN
    /\ pc = IdleClients
    /\ last = NoLast
    /\ created = {}
    /\ writes = 0
    /\ identityKey = None
    /\ lookups = 0

\* kv.set on the day key by some writer of controller c
StoreHolds(c, value) ==
    /\ call.op = "none"
    /\ writes < MaxValues
    /\ store' = kvSet(store, dayKey(DecodeDate), c, value)
    /\ writes' = writes + 1
    /\ UNCHANGED <<identityKey, lookups, rows, call, layout, now, newestFirst, pc, last, created>>

\* part_001 123-201
ListDayRead(options) ==
    /\ call.op = "none"
    /\ call' = [op |-> "listDay", date |-> DecodeDate, key |-> dayKey(DecodeDate),
                options |-> options, out |-> ListDay(store, DecodeDate, options)]
    /\ UNCHANGED <<identityKey, lookups, rows, layout, store, now, newestFirst, pc, last,
                   created, writes>>

\* part_001 297-345
GetLogHistoryRead(logKey) ==
    /\ call.op = "none"
    /\ call' = [op |-> "getLogHistory", date |-> datePart(logKey), key |-> logKey,
                options |-> NoOptions, out |-> GetLogHistory(store, logKey)]
    /\ UNCHANGED <<identityKey, lookups, rows, layout, store, now, newestFirst, pc, last,
                   created, writes>>

NextDecode ==
    \/ \E c \in Controllers, value \in DecodeValues : StoreHolds(c, value)
    \/ \E options \in {NoOptions, OwnedBy("A")} : ListDayRead(options)
    \/ \E logKey \in DecodeKeys : GetLogHistoryRead(logKey)

SpecDecode == InitDecode /\ [][NextDecode]_vars

\* the values held under the day key, and those of one controller's record
ValuesOf(st, c) == Range(st[<<dayKey(DecodeDate), c>>])
HeldValues(st) == UNION {ValuesOf(st, c) : c \in Controllers}
\* the objects a value holds: the elements of a container's logs, or itself
ObjectsOf(v) == IF ~v.ok THEN {} ELSE IF IsSome(v.logs) THEN Range(Get(v.logs)) ELSE {v.obj}
TextsOf(v) == {Get(o.text) : o \in {x \in ObjectsOf(v) : IsSome(x.text)}}
\* a recognized entry shape: an object with a key and a text, or a container
RecognizedShape(v) ==
    v.ok /\ (IsSome(v.logs) \/ (IsSome(v.obj.key) /\ IsSome(v.obj.text)))
\* key k is named by one object only among all the values held
NamedOnce(st, k) ==
    Cardinality({o \in UNION {ObjectsOf(v) : v \in HeldValues(st)} : o.key = Some(k)}) = 1

(* C14: a value that is no JSON, or JSON of no recognized entry shape (an    *)
(* object without key or without text), contributes no entry to listDay or   *)
(* to getLogHistory, which complete all the same and still return the        *)
(* entries of the other values.                                              *)
C14_MalformedValuesAreSkipped ==
    /\ call.op \in {"listDay", "getLogHistory"}
       => \A i \in 1..Len(call.out) :
             \E v \in HeldValues(store) : RecognizedShape(v) /\ call.out[i].text \in TextsOf(v)
    /\ (call.op = "listDay" /\ call.options = NoOptions)
       => \A v \in HeldValues(store) :
             (RecognizedShape(v) /\ ~IsSome(v.logs) /\ NamedOnce(store, Get(v.obj.key)))
             => \E i \in 1..Len(call.out) : call.out[i].text = Get(v.obj.text)

(* C18: an entry returned by listDay or by getLogHistory carries the         *)
(* controller of the physical record its value was read from, also when the  *)
(* value embeds another controller.                                          *)
C18_ControllerIsTheRecords ==
    call.op \in {"listDay", "getLogHistory"}
    => \A i \in 1..Len(call.out) :
          \E c \in Controllers :
              /\ \E v \in ValuesOf(store, c) : call.out[i].text \in TextsOf(v)
              /\ call.out[i].controller = Some(c)

(* C19: every entry listDay(date) returns has a key whose date part is the   *)
(* queried date, whatever the records hold: an embedded key of another date, *)
(* a value without key that is given a freshly derived one.                  *)
C19_ListedKeysHaveTheDate ==
    call.op = "listDay"
    => \A i \in 1..Len(call.out) : datePart(call.out[i].key) = call.date

(* C20: a legacy container { key: date, logs: [e1..en] } is exploded: each   *)
(* of its n entries is listed by listDay (when no other value names its      *)
(* key), and getLogHistory(key) returns the version stored at any position   *)
(* of a logs array.                                                          *)
C20_DayChainIsExploded ==
    \A o \in UNION {ObjectsOf(v) : v \in {x \in HeldValues(store) : IsSome(x.logs)}} :
        /\ (call.op = "listDay" /\ call.options = NoOptions /\ NamedOnce(store, Get(o.key)))
           => \E i \in 1..Len(call.out) :
                 call.out[i].key = Get(o.key) /\ call.out[i].text = Get(o.text)
        /\ (call.op = "getLogHistory" /\ call.key = Get(o.key))
           => \E i \in 1..Len(call.out) : call.out[i].text = Get(o.text)

-----------------------------------------------------------------------------
(* SpecForeign: the entry generation reading records that any writer of the *)
(* protocol has set.  A record under the store key entry/{K} may hold a     *)
(* well-formed entry whose embedded key is not K.                           *)

ForeignKeys == {K1, K3}

\* the entries a writer serializes: key, at and text of its choosing
ForeignValues ==
    { stringify(LogEntry(k, n, ToText(n + 1), Some(<<>>), Some(<<>>), None)) :
        k \in ForeignKeys, n \in 0..1 }

InitForeign ==
    /\ rows = <<>>
    /\ call = NoCall
    /\ layout = "entry"
    /\ store = EmptyStore
    /\ now = MaxClock
    /\ newestFirst \in BOOLEAN
    /\ pc = IdleClients
    /\ last = NoLast
    /\ created = {}
    /\ writes = 0
    /\ identityKey = None
    /\ lookups = 0

\* kv.set on the store key of entry K by some writer of controller c
StoreHoldsEntry(c, K, value) ==
    /\ call.op = "none"
    /\ writes < MaxValues
    /\ store' = kvSet(store, entryKey(K), c, value)
    /\ writes' = writes + 1
    /\ UNCHANGED <<identityKey, lookups, rows, call, layout, now, newestFirst, pc, last, created>>

NextForeign ==
    \/ \E c \in Controllers, K \in ForeignKeys, value \in ForeignValues :
          StoreHoldsEntry(c, K, value)
    \/ \E options \in {NoOptions, OwnedBy("A")} : ListDayRead(options)
    \/ \E logKey \in ForeignKeys : GetLogHistoryRead(logKey)

SpecForeign == InitForeign /\ [][NextForeign]_vars

(* C21: getLogHistory(key) returns only entries whose key is the requested  *)
(* key, whatever keys the values of the fetched record embed, and returns   *)
(* the empty sequence when no value under the key carries it.               *)
C21_HistoryIsOfTheKey ==
    call.op = "getLogHistory"
    => /\ \A i \in 1..Len(call.out) : call.out[i].key = call.key
       /\ (\A c \in Controllers : \A v \in Range(store[<<entryKey(call.key), c>>]) :
               v.obj.key # Some(call.key))
          => call.out = <<>>

-----------------------------------------------------------------------------
(* SpecBare: the day generation called with a key that has no '/'.          *)
(* logKey.split('/')[0] of such a key is the whole key, so the store key    *)
(* the call works on is entry/{key}, a key under which no client writes.    *)

BareKey == [d |-> 0, t |-> 0, r |-> "a"]
BareCallKeys == CallKeys \cup {BareKey}

InitBare ==
    /\ rows = <<>>
    /\ call = NoCall
    /\ layout = "day"
    /\ store = [sk \in (StoreKeys \cup {dayKey(datePart(BareKey))}) \X Controllers |-> <<>>]
    /\ now = 0
    /\ newestFirst \in BOOLEAN
    /\ pc = [cl \in Clients |-> Idle]
    /\ last = NoLast
    /\ created = {}
    /\ writes = 0
    /\ identityKey = None
    /\ lookups = 0

NextBare ==
    \/ Tick
    \/ Observe
    \/ \E cl \in Clients : Log(cl)
    \/ \E cl \in Clients, logKey \in BareCallKeys : UpdateRead(cl, logKey)
    \/ \E cl \in Clients : UpdateWrite(cl)
    \/ \E cl \in Clients, logKey \in BareCallKeys : RemoveEntryDay(cl, logKey)
    \/ \E logKey \in BareCallKeys : GetLogHistoryRead(logKey)

SpecBare == InitBare /\ [][NextBare]_vars

(* C22: a call of updateEntryByKey, removeEntry or getLogHistory with a key *)
(* that contains no '/' ends in a MalformedKey error: it never returns an   *)
(* entry, undefined, a boolean or a history.                                *)
C22_BareKeyIsMalformed ==
    /\ (last.op \in {"updateEntryByKey", "removeEntry"} /\ ~HasSlash(last.key)) => last.threw
    /\ call.op = "getLogHistory" => HasSlash(call.key)

-----------------------------------------------------------------------------
(* Claims about how the scan of listDay stops (SpecPaged) *)

(* C23: once a store page has returned fewer rows than the page size asked  *)
(* for, listDay issues no further fetch: a fetch is issued only when every  *)
(* page before it was full.                                                 *)
C23_NoFetchAfterShortPage ==
    [][\A cl \in Clients :
          (/\ pc[cl].op = "listDay"
           /\ pc'[cl].op = "listDay"
           /\ pc'[cl].fetches = pc[cl].fetches + 1)
          => pc[cl].skip = scanSkip(pc[cl].options)
                             + pc[cl].fetches * scanPageSize(pc[cl].options)]_vars

\* the entries of the date that pass the filters and lie within the first
\* maxPages pages of the stream
MatchesWithinBudget(st, date, options) ==
    LET from == scanSkip(options)
        rs == Slice(kvStream(st), from, from + scanMaxPages(options) * scanPageSize(options))
    IN  filterScanned(consider(rs, date), options)

(* C24: when limit = n is asked for and at least n entries that match the   *)
(* date, the controller filter and the tag filter lie within the first      *)
(* maxPages pages, listDay returns n entries: entries of the date that fail *)
(* a filter do not count towards ending the scan.                           *)
C24_StopsOnFilteredMatches ==
    (last.op = "listDay" /\ IsSome(scanWant(last.options)))
    => (Len(MatchesWithinBudget(store, datePart(last.key), last.options))
            >= Get(scanWant(last.options))
        => Len(last.out) = Get(scanWant(last.options)))

-----------------------------------------------------------------------------
(* Further claims about the clients and the store (Spec) *)

(* C25: a rejection of the store's remove is not propagated: removeEntry    *)
(* and removeDay end by returning false, never by raising.  (The store's    *)
(* reads are modelled as succeeding, so the half of the claim about the     *)
(* read path has no case here.)                                             *)
C25_RemoveFailureIsFalse ==
    last.op \in {"removeEntry", "removeDay"} => ~last.threw

(* C26: log() calls that produce distinct entry keys write under distinct   *)
(* store keys, so no write supersedes the record of another entry: the      *)
(* versions held in one physical record all carry one entry key.            *)
C26_WritersUseIndependentKeys ==
    \A p \in DOMAIN store :
        \A i, j \in 1..Len(store[p]) : store[p][i].obj.key = store[p][j].obj.key

-----------------------------------------------------------------------------
(* SpecDerive: the day generation listing a day twice over one snapshot     *)
(* that holds values without a key.  normalizeLog derives a key for such a  *)
(* value from the clock and from Math.random each time it decodes it; the   *)
(* suffixes Math.random yields during one call are an input of the call.    *)

Keyless == ObjectValue(Raw(None, Some("iii"), None))
DeriveValues == {Keyless, ObjectValue(Raw(Some(K1), Some("i"), None))}

\* the suffixes of the first and of the second key derived in a call
RandomSuffixes == {<<x, y>> : x, y \in {"a", "b"}}

listDayAt(rand) ==
    listDay(kvGetKey(store, dayKey(DecodeDate), None, newestFirst), NoOptions,
            [now |-> now, rand |-> rand])

InitDerive ==
    /\ rows = <<>>
    /\ call = NoCall
    /\ layout = "day"
    /\ store = EmptyStore
    /\ now = 0
    /\ newestFirst \in BOOLEAN
    /\ pc = IdleClients
    /\ last = NoLast
    /\ created = {}
    /\ writes = 0
    /\ identityKey = None
    /\ lookups = 0

\* part_001 123-201: a first listDay(date) of the snapshot
ListDayFirst(rand) ==
    /\ call.op = "none"
    /\ call' = [op |-> "listDay", date |-> DecodeDate, key |-> dayKey(DecodeDate),
                options |-> NoOptions, out |-> listDayAt(rand)]
    /\ UNCHANGED <<identityKey, lookups, rows, layout, store, now, newestFirst, pc, last,
                   created, writes>>

\* part_001 123-201: a second listDay(date) of the same snapshot
ListDayAgain(rand) ==
    /\ call.op = "listDay"
    /\ last = NoLast
    /\ last' = [op |-> "listDay", caller |-> "", key |-> dayKey(DecodeDate), ok |-> TRUE,
                threw |-> FALSE, out |-> listDayAt(rand)]
    /\ UNCHANGED <<identityKey, lookups, rows, call, layout, store, now, newestFirst, pc,
                   created, writes>>

NextDerive ==
    \/ Tick
    \/ \E c \in Controllers, value \in DeriveValues : StoreHolds(c, value)
    \/ \E rand \in RandomSuffixes : ListDayFirst(rand)
    \/ \E rand \in RandomSuffixes : ListDayAgain(rand)

SpecDerive == InitDerive /\ [][NextDerive]_vars

(* C27: two listDay calls with the same date and options over the same      *)
(* store contents return the same sequence, also when values without a key  *)
(* are stored; and a record all of whose versions are one keyless value     *)
(* yields one entry, not one per version.                                   *)
C27_ListDayIsDeterministic ==
    /\ (call.op = "listDay" /\ last.op = "listDay") => last.out = call.out
    /\ call.op = "listDay"
       => \A c \in Controllers :
             (/\ Len(store[<<dayKey(DecodeDate), c>>]) >= 2
              /\ Range(store[<<dayKey(DecodeDate), c>>]) = {Keyless}
              /\ \A o \in Controllers \ {c} : store[<<dayKey(DecodeDate), o>>] = <<>>)
             => Len(call.out) = 1

-----------------------------------------------------------------------------
(* Claims about versions and races (Spec) *)

(* C28: once updateEntryByKey has written a newer version of key K (the     *)
(* versions of K having strictly increasing times), listDay of K's date     *)
(* returns for K the entry with the text of the latest version, whatever    *)
(* the author logged on that date afterwards and whichever direction the    *)
(* store lists a record's history in.                                       *)
C28_LatestVersionListed ==
    \A K \in EntryKeys, c \in Controllers :
        LET vs == VersionsOf(store, c, K)
        IN  (CreatedBy(K) = {c} /\ Len(vs) >= 2 /\ StrictlyIncreasingAt(vs))
            => LET e == find(ListDay(store, datePart(K), NoOptions), K)
               IN  IsSome(e) /\ Get(e).text = vs[Len(vs)].text

-----------------------------------------------------------------------------
(* SpecRace: two clients of one identity, so that a call of one runs while  *)
(* a call of the other is suspended between its store read and its store    *)
(* write.                                                                   *)

RaceClients == {"a1", "a2"}

InitRace ==
    /\ rows = <<>>
    /\ call = NoCall
    /\ layout \in {"day", "entry"}
    /\ store = EmptyStore
    /\ now = 0
    /\ newestFirst \in BOOLEAN
    /\ pc = [cl \in RaceClients |-> Idle]
    /\ last = NoLast
    /\ created = {}
    /\ writes = 0
    /\ identityKey = None
    /\ lookups = 0

NextRace ==
    \/ Tick
    \/ Observe
    \/ \E cl \in RaceClients : Log(cl)
    \/ \E cl \in RaceClients, logKey \in CallKeys : UpdateRead(cl, logKey)
    \/ \E cl \in RaceClients : UpdateWrite(cl)
    \/ \E cl \in RaceClients, logKey \in CallKeys : RemoveEntryDay(cl, logKey)
    \/ \E cl \in RaceClients, logKey \in CallKeys : RemoveRead(cl, logKey)
    \/ \E cl \in RaceClients : RemoveCommit(cl)

SpecRace == InitRace /\ [][NextRace]_vars

(* C29: an updateEntryByKey(K) that did its ownership read before K was     *)
(* removed does not write after the removal: when the update ends and K is  *)
(* no longer listed for its owner, K is not listed after it either.         *)
C29_NoResurrection ==
    [][\A cl \in RaceClients :
          (pc[cl].op = "update" /\ pc'[cl].op = "idle")
          => (~IsSome(OwnEntry(store, ControllerOf(cl), pc[cl].key))
              => ~IsSome(OwnEntry(store', ControllerOf(cl), pc[cl].key)))]_vars

-----------------------------------------------------------------------------
(* SpecRemoveDay: the removeDay of the entry generation alone, no other     *)
(* call being made.  A removeDay in progress always takes its next step:    *)
(* the store answers every read and every removal.                          *)

\* the stores two authors' log calls leave: entries of the last date and one
\* of the first
RemoveDayStores ==
    { [p \in PagedStoreDomain |->
          IF p[1] \in held[p[2]] THEN <<loggedValue("entry", p[1], p[2])>> ELSE <<>>] :
        held \in [Controllers -> SUBSET (PagedKeys \cup {K1})] }

InitRemoveDay ==
    /\ rows = <<>>
    /\ call = NoCall
    /\ layout = "entry"
    /\ store \in RemoveDayStores
    /\ now = MaxClock
    /\ newestFirst = FALSE
    /\ pc = [cl \in Clients |-> Idle]
    /\ last = NoLast
    /\ created = {}
    /\ writes = 0
    /\ identityKey = None
    /\ lookups = 0

NextRemoveDay ==
    \/ Observe
    \/ \E cl \in Clients : RemoveDayCall(cl)
    \/ \E cl \in Clients : RemoveDayList(cl)
    \/ \E cl \in Clients : RemoveDayRemove(cl)

\* A removeDay is about to read, and the read ends the call or yields entries
\* to remove: exactly then a step of RemoveDayList is enabled that changes the
\* state
ListPending ==
    \E cl \in Clients :
        /\ pc[cl].op = "removeDay"
        /\ pc[cl].page = <<>>
        /\ (pageIsEmpty(removeDayPage(cl)) \/ removeDayPage(cl) # <<>>)

\* weak fairness of RemoveDayList, its enabling condition written out
FairList ==
    \/ []<>(~ListPending)
    \/ []<><<\E cl \in Clients : RemoveDayList(cl)>>_vars

SpecRemoveDay ==
    /\ InitRemoveDay
    /\ [][NextRemoveDay]_vars
    /\ FairList
    /\ WF_vars(\E cl \in Clients : RemoveDayRemove(cl))

====
